---- MODULE Spec2Model ----
(***************************************************************************)
(* The topology view of SDI-Manager: the TopologyGraph component, its d3   *)
(* force simulation, its drag and zoom behaviours and the drawn frame.     *)
(*                                                                         *)
(* The repository holds the component in more than one revision:           *)
(*   version 1  src/components/TopologyGraph.tsx lines 1-191               *)
(*   version 2  src/components/TopologyGraph.tsx lines 192-452             *)
(* (src/unnamed/part_003 behaves as version 2 in everything modelled       *)
(* here).  The revision is fixed in Init and never changes.                *)
(*                                                                         *)
(* Numbers.  Coordinates are integers on a small grid and only the x       *)
(* coordinate is kept: every statement of the source treats y exactly as   *)
(* x.  alpha is kept in fixed point, AlphaScale units for 1.0, and moves   *)
(* toward alphaTarget by 1/DecayDiv of the distance per tick (d3: alpha += *)
(* (alphaTarget - alpha) * alphaDecay), rounded away from zero so that it  *)
(* always moves.  The link, charge and collide forces are not computed:    *)
(* a tick may move a free node of a multi-node simulation to any grid      *)
(* position.  A lone free node is moved by the centering force only.       *)
(*                                                                         *)
(* Beside the view the module holds App's snapshot fetches                 *)
(* (src/unnamed/part_000, src/unnamed/part_004; variable app) and the      *)
(* topology generator generateTopologyFromConfig                           *)
(* (src/services/mockData.ts; variable topo), each under a specification   *)
(* of its own.                                                             *)
(***************************************************************************)
EXTENDS Integers, Sequences, FiniteSets, TLC

\* ---------------------------------------------------------------- bounds
\* the grid of node and pointer coordinates is 0..MaxCoord
MaxCoord == 2
\* the caller mounts the view or supplies a data set at most MaxRuns times
MaxRuns == 2
\* fixed-point resolution of alpha: AlphaScale units are 1.0 and one unit is
\* the settling threshold (d3's alphaMin is 0.001)
AlphaScale == 4
\* alpha covers 1/DecayDiv of its distance to the target per tick (d3's
\* default alphaDecay is about 1/44)
DecayDiv == 2
\* the viewport translation stays within -MaxPan..MaxPan
MaxPan == 1
\* App calls fetchData at most MaxFetches times
MaxFetches == 3
\* generateTopologyFromConfig is given at most MaxConfigs device configs
MaxConfigs == 4

\* ------------------------------------------------------------- constants
Versions == {1, 2}
DeviceIds == {"a", "b"}
NodeLists == {<< >>, <<"a">>, <<"a", "b">>}
LinkLists == SUBSET {<<"a", "b">>, <<"a", "z">>}
Coords == 0..MaxCoord
Offsets == {0, 1}
\* the places a pointer move goes to: either end of the grid
Pointers == {0, MaxCoord}
NoPos == -1
NoPin == -1
NoNode == "none"

\* enum DeviceType, enum DeviceStatus, Link.status
DeviceTypes == {"ROUTER", "SWITCH", "SERVER", "FIREWALL"}
DeviceStatuses == {"ONLINE", "OFFLINE", "WARNING"}
LinkStatuses == {"UP", "DOWN"}

\* forceManyBody().strength(-800)
Strength == -800
\* the value of an arithmetic operation that has no numeric result
NaN == -1000000

\* scaleExtent([0.1, 4]), in tenths
KMin == 1
KMax == 40
KIdentity == 10
\* the scales a wheel or pinch gesture asks for, in tenths; 0 and 80 stand for
\* a request below and above the extent
ScaleRequests == {0, 5, 10, 20, 40, 80}

\* forceSimulation defaults: alpha 1, alphaMin one unit, alphaTarget 0
AlphaStart == AlphaScale
AlphaMin == 1
\* alphaTarget(0.3)
AlphaTargetDrag == (3 * AlphaScale) \div 10

Blank == [id \in DeviceIds |-> NoPos]

NoSim == [exists |-> FALSE, alpha |-> 0, alphaTarget |-> 0, timer |-> FALSE,
          listener |-> FALSE, tornDown |-> FALSE]

NoDrag == [node |-> NoNode, dx |-> 0, ptr |-> 0, fx |-> NoPin, moved |-> FALSE,
           dom |-> FALSE, cur |-> FALSE, live |-> FALSE]

NoGesture == [kind |-> "none", p |-> 0, d |-> 0, zk |-> 0, k |-> 0, x |-> 0]

NoStyle == [type |-> "none", status |-> "none", link |-> "none",
            shape |-> "none", stroke |-> "none", line |-> "none"]

\* App before its first fetch: useState([]) for devices, links and alarms,
\* useState(false) for loading.  devices names the lists on display: 0 the
\* empty lists, i the lists the backend returned to the i-th fetch
NoApp == [devices |-> 0, loading |-> FALSE, started |-> 0, pending |-> {},
          ok |-> {}, triggers |-> 0, timers |-> 0]

\* no call of generateTopologyFromConfig
NoTopo == [configs |-> << >>, i |-> 0, links |-> << >>, done |-> FALSE]

VARIABLES
    version,        \* which revision of the component is built
    mounted,        \* the view is mounted
    crashed,        \* the effect threw; React removed the tree
    runs,           \* number of mounts and data-set replacements so far
    nodes, links,   \* the props supplied by the caller
    sim,            \* the simulation the drawn elements are bound to
    simNodes,       \* the node list that simulation was created with
    pos, pin,       \* x and fx of the node objects that simulation uses
    cleanup,        \* the last effect run returned a cleanup function
    orphans,        \* running simulations no handle refers to any more
    drawnNodes, drawnLinks,         \* the <g> and <line> elements in the svg
    drag,           \* the d3-drag gesture in progress
    selectedDevice, \* App state set by handleNodeClick
    emitted,        \* the node-selected events raised by the last step
    tornTick,       \* a tick callback of a torn-down simulation has run (history)
    zoomOn,         \* a zoom behaviour is attached to the svg
    zoomK, zoomX,   \* svg.__zoom: the transform held by d3-zoom
    drawnK, drawnX, \* the transform attribute of the drawn group
    drawnPos,       \* the position attributes the tick handler wrote on the
                    \* drawn node groups and line ends (NoPos: none written)
    gesture,        \* the last zoom gesture and the view before it (history)
    styled,         \* one device and one link record and the marks drawn for them
    app,            \* App: the lists on display, the loading flag, the fetches,
                    \* backend triggers and timers in flight
    topo            \* one call of generateTopologyFromConfig: its argument, its
                    \* loop index and the links pushed so far

vars == <<version, mounted, crashed, runs, nodes, links, sim, simNodes, pos, pin,
          cleanup, orphans, drawnNodes, drawnLinks, drag, selectedDevice,
          emitted, tornTick, zoomOn, zoomK, zoomX, drawnK, drawnX, drawnPos,
          gesture, styled, app, topo>>

\* the variables of the topology view
viewVars == <<version, mounted, crashed, runs, nodes, links, sim, simNodes, pos,
              pin, cleanup, orphans, drawnNodes, drawnLinks, drag,
              selectedDevice, emitted, tornTick, zoomOn, zoomK, zoomX, drawnK,
              drawnX, drawnPos, gesture, styled>>

simVars == <<sim, simNodes, pos, pin, cleanup, orphans>>
zoomVars == <<zoomOn, zoomK, zoomX, drawnK, drawnX>>
callerVars == <<version, mounted, crashed, runs, nodes, links>>

\* --------------------------------------------------------------- helpers
Range(s) == {s[i] : i \in 1..Len(s)}

IndexOf(s, id) == CHOOSE i \in 1..Len(s) : s[i] = id

Abs(n) == IF n < 0 THEN -n ELSE n

RoundAway(n, d) == IF n >= 0 THEN (n + d - 1) \div d ELSE -((-n + d - 1) \div d)

\* a simulation whose alpha never decays (alphaDecay 0)
AlphaStep_noDecay(a, t) == a

\* d3 simulation.tick: alpha += (alphaTarget - alpha) * alphaDecay
AlphaStep(a, t) == a + RoundAway(t - a, DecayDiv)

\* d3 initializeNodes: the position of node i is a function of its index alone
InitialX(i) == (i - 1) % (MaxCoord + 1)

\* forceCenter(width / 2, height / 2)
CenterX == MaxCoord \div 2

\* d3 initializeNodes: fx wins, an existing x is kept, otherwise the initial placement
InitNodes(ns, p, f) ==
    [id \in DeviceIds |->
        IF id \notin Range(ns) THEN p[id]
        ELSE IF f[id] # NoPin THEN f[id]
        ELSE IF p[id] = NoPos THEN InitialX(IndexOf(ns, id))
        ELSE p[id]]

\* forceLink initialize: find(nodeById, id) throws for an id that is not a node
DanglingLinks(ns, ls) == {l \in ls : l[1] \notin Range(ns) \/ l[2] \notin Range(ns)}

\* simulation.stop() in the effect cleanup
Cleaned(s) == IF cleanup /\ s.exists THEN [s EXCEPT !.timer = FALSE, !.tornDown = TRUE]
              ELSE IF s.exists THEN [s EXCEPT !.tornDown = TRUE] ELSE s

\* a simulation whose timer still runs when its handle is dropped
Leak(s, held) == IF s.exists /\ s.timer
                 THEN {[alpha |-> s.alpha, alphaTarget |-> s.alphaTarget,
                        listener |-> s.listener, held |-> held]}
                 ELSE {}

\* ------------------------------------------------------------------ Init
\* the state of the view before it is mounted
Idle ==
    /\ mounted = FALSE /\ crashed = FALSE /\ runs = 0
    /\ nodes = << >> /\ links = {}
    /\ sim = NoSim /\ simNodes = << >>
    /\ pos = Blank /\ pin = Blank
    /\ cleanup = FALSE /\ orphans = {}
    /\ drawnNodes = {} /\ drawnLinks = {}
    /\ drag = NoDrag /\ selectedDevice = NoNode /\ emitted = << >>
    /\ tornTick = FALSE
    /\ zoomOn = FALSE /\ zoomK = KIdentity /\ zoomX = 0
    /\ drawnK = KIdentity /\ drawnX = 0
    /\ drawnPos = Blank
    /\ gesture = NoGesture
    /\ app = NoApp

Init ==
    /\ version \in Versions
    /\ Idle
    /\ styled = NoStyle
    /\ topo = NoTopo

\* ------------------------------------------------------- the effect body
\* the gesture in progress after the drawn elements were rebuilt or removed
Detached(d, keepObj) ==
    IF d.node = NoNode THEN d
    ELSE [d EXCEPT !.dom = FALSE, !.cur = FALSE, !.live = (keepObj /\ d.live)]

GestureOn(s) == drag.node # NoNode /\ drag.cur /\ s.exists

\* the body of useEffect(() => {...}, [nodes, links, onNodeClick]); old is the
\* previous simulation after React ran the previous cleanup, orph the running
\* simulations without a handle and dg the drag gesture at that moment
Render(ns, ls, fresh, old, orph, dg) ==
    LET keep == version = 1 /\ ~fresh
        p0 == IF keep THEN pos ELSE Blank
        f0 == IF keep THEN pin ELSE Blank
        held == dg.node # NoNode /\ dg.cur /\ old.exists
    IN
    /\ nodes' = ns
    /\ links' = ls
    /\ version' = version
    /\ gesture' = NoGesture
    /\ UNCHANGED <<tornTick, styled, app, topo>>
    /\ IF version = 1 /\ Len(ns) = 0
       THEN \* version 1, line 47: return before anything is cleared or built
            /\ mounted' = TRUE
            /\ sim' = old
            /\ cleanup' = FALSE
            /\ orphans' = orph
            /\ drag' = dg
            /\ UNCHANGED <<crashed, simNodes, pos, pin, drawnNodes, drawnLinks,
                           zoomOn, zoomK, zoomX, drawnK, drawnX, drawnPos>>
       ELSE IF DanglingLinks(ns, ls) # {}
       THEN \* forceLink(...).id(...) throws "node not found" inside the effect:
            \* the simulation was already constructed and its timer started,
            \* no tick listener and no cleanup exist, React removes the tree
            /\ mounted' = FALSE
            /\ crashed' = TRUE
            /\ sim' = NoSim
            /\ simNodes' = << >>
            /\ pos' = Blank
            /\ pin' = Blank
            /\ cleanup' = FALSE
            /\ orphans' = orph \cup Leak(old, held)
                            \cup {[alpha |-> AlphaStart, alphaTarget |-> 0,
                                   listener |-> FALSE, held |-> FALSE]}
            /\ drawnNodes' = {}
            /\ drawnLinks' = {}
            /\ drawnPos' = Blank
            /\ drag' = Detached(dg, FALSE)
            /\ zoomOn' = FALSE
            /\ zoomK' = KIdentity /\ zoomX' = 0
            /\ drawnK' = KIdentity /\ drawnX' = 0
       ELSE /\ mounted' = TRUE
            /\ crashed' = crashed
            /\ sim' = [exists |-> TRUE, alpha |-> AlphaStart, alphaTarget |-> 0,
                       timer |-> TRUE, listener |-> TRUE, tornDown |-> FALSE]
            /\ simNodes' = ns
            /\ pos' = InitNodes(ns, p0, f0)
            /\ pin' = f0
            /\ cleanup' = TRUE
            /\ orphans' = orph \cup Leak(old, held)
            /\ drawnNodes' = Range(ns)
            /\ drawnLinks' = ls
            /\ drawnPos' = Blank
            /\ drag' = Detached(dg, keep)
            /\ zoomOn' = TRUE
            /\ UNCHANGED <<zoomK, zoomX>>
            /\ drawnK' = KIdentity /\ drawnX' = 0

\* an effect run caused by the caller: a mount or new nodes or links props
Effect(ns, ls, fresh, old) ==
    /\ runs' = runs + 1
    /\ emitted' = << >>
    /\ selectedDevice' = selectedDevice
    /\ Render(ns, ls, fresh, old, orphans, drag)

\* the view is mounted (the topology tab is opened)
Mount(ns, ls, fresh) ==
    /\ ~mounted /\ ~crashed
    /\ runs < MaxRuns
    /\ fresh \/ ns = nodes
    /\ Effect(ns, ls, fresh, NoSim)

\* the caller supplies a new node list or link list
Replace(ns, ls, fresh) ==
    /\ mounted
    /\ runs < MaxRuns
    /\ fresh \/ ns = nodes
    /\ fresh \/ ls # links
    /\ Effect(ns, ls, fresh, Cleaned(sim))

\* the view is unmounted (another tab is opened)
Unmount ==
    /\ mounted
    /\ mounted' = FALSE
    /\ sim' = NoSim
    /\ simNodes' = << >>
    /\ orphans' = orphans \cup Leak(Cleaned(sim), GestureOn(sim))
    /\ cleanup' = FALSE
    /\ pos' = IF version = 1 THEN pos ELSE Blank
    /\ pin' = IF version = 1 THEN pin ELSE Blank
    /\ drawnNodes' = {}
    /\ drawnLinks' = {}
    /\ drag' = Detached(drag, version = 1)
    /\ zoomOn' = FALSE
    /\ zoomK' = KIdentity /\ zoomX' = 0
    /\ drawnK' = KIdentity /\ drawnX' = 0
    /\ drawnPos' = Blank
    /\ gesture' = NoGesture
    /\ emitted' = << >>
    /\ UNCHANGED <<version, crashed, runs, nodes, links, selectedDevice, tornTick,
                   styled, app, topo>>

\* ------------------------------------------------------------- the clock
\* a quotient as the arithmetic of the program computes it
Div(n, m) == IF m = 0 THEN NaN ELSE n \div m

\* an offset used as it is
Jiggle_none(d) == d

\* d3 jiggle: an offset of exactly zero is replaced by a tiny random one
Jiggle(d) == IF d = 0 THEN 1 ELSE d

\* forceManyBody().strength(-800): the velocity change of a node at offset d
\* from another one, x * strength * alpha / l with l the squared distance
Charge(d, a) == Div(Jiggle(d) * Strength * a, Jiggle(d) * Jiggle(d))

\* every force of this tick is a number
Finite(a) ==
    \A i \in Range(simNodes), j \in Range(simNodes) :
        i # j => Charge(pos[i] - pos[j], a) # NaN

\* a pinned node left where it was instead of being moved onto its pin
Integrate_ignoresPin(id, x) == IF pin[id] # NoPin THEN pos[id] ELSE x

\* d3 tick: a node with fx is placed on fx, every other one is moved by its
\* velocity to x
Integrate(id, x) == IF pin[id] # NoPin THEN pin[id] ELSE x

\* a simulation without the centering force
Centered_none(mv) == TRUE

\* forceCenter(width / 2, height / 2): the centre of mass is moved to the
\* centre of the viewport, which for a lone free node is the node itself
Centered(mv) == Len(simNodes) = 1 => \A id \in DOMAIN mv : mv[id] = CenterX

\* a frame timer that is never stopped
Scheduled_always(s) == s.exists

\* d3-timer: the step callback is called while the timer of the simulation runs
Scheduled(s) == s.exists /\ s.timer

\* d3 step(): tick(), dispatch "tick", stop the timer once alpha < alphaMin;
\* the tick handler writes the positions on the drawn elements
Tick ==
    /\ Scheduled(sim)
    /\ LET a == AlphaStep(sim.alpha, sim.alphaTarget)
           free == {id \in Range(simNodes) : pin[id] = NoPin}
       IN /\ sim' = [sim EXCEPT !.alpha = a, !.timer = (a >= AlphaMin)]
          /\ \E mv \in [free -> Coords] :
                /\ Centered(mv)
                /\ pos' = [id \in DeviceIds |->
                             IF id \notin Range(simNodes) THEN pos[id]
                             ELSE Integrate(id, IF id \notin free THEN pos[id]
                                                ELSE IF Finite(sim.alpha) THEN mv[id]
                                                ELSE NaN)]
    /\ drawnPos' = [id \in DeviceIds |-> IF id \in drawnNodes THEN pos'[id] ELSE NoPos]
    /\ tornTick' = (tornTick \/ (sim.tornDown /\ sim.listener))
    /\ emitted' = << >>
    /\ UNCHANGED <<version, mounted, crashed, runs, nodes, links, simNodes, pin,
                   cleanup, orphans, drawnNodes, drawnLinks, drag,
                   selectedDevice, zoomOn, zoomK, zoomX, drawnK, drawnX,
                   gesture, styled, app, topo>>

\* the same step of a simulation whose handle was dropped while its timer ran
TickOrphan(o) ==
    /\ o \in orphans
    /\ LET a == AlphaStep(o.alpha, o.alphaTarget)
       IN orphans' = (orphans \ {o}) \cup
                     (IF a >= AlphaMin THEN {[o EXCEPT !.alpha = a]} ELSE {})
    /\ tornTick' = (tornTick \/ o.listener)
    /\ emitted' = << >>
    /\ UNCHANGED <<version, mounted, crashed, runs, nodes, links, sim, simNodes,
                   pos, pin, cleanup, drawnNodes, drawnLinks, drag,
                   selectedDevice, zoomOn, zoomK, zoomX, drawnK, drawnX,
                   drawnPos, gesture, styled, app, topo>>

\* ------------------------------------------------------------- node drag
\* dragstarted without .restart(): the target is set, the timer is left alone
dragstarted_noRestart(n, dx) ==
    /\ sim' = [sim EXCEPT !.alphaTarget = AlphaTargetDrag]
    /\ pin' = [pin EXCEPT ![n] = pos[n]]
    /\ drag' = [node |-> n, dx |-> dx, ptr |-> pos[n] - dx, fx |-> pos[n],
                moved |-> FALSE, dom |-> TRUE, cur |-> TRUE, live |-> TRUE]

\* dragstarted that restarts the timer and leaves the alpha target at 0
dragstarted_noTarget(n, dx) ==
    /\ sim' = [sim EXCEPT !.timer = TRUE]
    /\ pin' = [pin EXCEPT ![n] = pos[n]]
    /\ drag' = [node |-> n, dx |-> dx, ptr |-> pos[n] - dx, fx |-> pos[n],
                moved |-> FALSE, dom |-> TRUE, cur |-> TRUE, live |-> TRUE]

\* d3-drag "start" at pointer-down on the element of node n; dx is the
\* offset d3-drag keeps between the subject's position and the pointer
dragstarted(n, dx) ==
    /\ sim' = [sim EXCEPT !.alphaTarget = AlphaTargetDrag, !.timer = TRUE]
    /\ pin' = [pin EXCEPT ![n] = pos[n]]
    /\ drag' = [node |-> n, dx |-> dx, ptr |-> pos[n] - dx, fx |-> pos[n],
                moved |-> FALSE, dom |-> TRUE, cur |-> TRUE, live |-> TRUE]

PointerDown(n, dx) ==
    /\ mounted /\ sim.exists
    /\ drag.node = NoNode
    /\ n \in drawnNodes
    /\ dragstarted(n, dx)
    /\ emitted' = << >>
    /\ UNCHANGED <<version, mounted, crashed, runs, nodes, links, simNodes, pos,
                   cleanup, orphans, drawnNodes, drawnLinks, selectedDevice,
                   tornTick, zoomOn, zoomK, zoomX, drawnK, drawnX, drawnPos,
                   gesture, styled, app, topo>>

\* dragged writing the subject's own position instead of event.x
dragged_subjectX(p) ==
    /\ drag' = [drag EXCEPT !.ptr = p, !.moved = TRUE]
    /\ pin' = pin

\* dragged assigning fx on every node instead of on event.subject
dragged_pinsAll(p) ==
    /\ drag' = [drag EXCEPT !.ptr = p, !.fx = p + drag.dx, !.moved = TRUE]
    /\ pin' = [id \in DeviceIds |-> p + drag.dx]

\* d3-drag "drag": event.x is the pointer location plus the offset
dragged(p) ==
    /\ drag' = [drag EXCEPT !.ptr = p, !.fx = p + drag.dx, !.moved = TRUE]
    /\ pin' = IF drag.live THEN [pin EXCEPT ![drag.node] = p + drag.dx] ELSE pin

PointerMove(p) ==
    /\ drag.node # NoNode
    /\ p # drag.ptr
    /\ dragged(p)
    /\ emitted' = << >>
    /\ UNCHANGED <<version, mounted, crashed, runs, nodes, links, sim, simNodes,
                   pos, cleanup, orphans, drawnNodes, drawnLinks, selectedDevice,
                   tornTick, zoomOn, zoomK, zoomX, drawnK, drawnX, drawnPos,
                   gesture, styled, app, topo>>

\* dragended without the fx = null assignments
dragended_keepsPin ==
    [sim |-> IF drag.cur /\ sim.exists THEN [sim EXCEPT !.alphaTarget = 0] ELSE sim,
     orphans |-> {IF o.held THEN [o EXCEPT !.alphaTarget = 0, !.held = FALSE] ELSE o :
                      o \in orphans},
     pin |-> pin]

\* d3-drag "end": the simulation, the simulations without a handle and the
\* pins as dragended leaves them
dragended ==
    [sim |-> IF drag.cur /\ sim.exists THEN [sim EXCEPT !.alphaTarget = 0] ELSE sim,
     orphans |-> {IF o.held THEN [o EXCEPT !.alphaTarget = 0, !.held = FALSE] ELSE o :
                      o \in orphans},
     pin |-> IF drag.live THEN [pin EXCEPT ![drag.node] = NoPin] ELSE pin]

\* the click listener of the node element (version 2, lines 311-314); d3-drag
\* suppresses the click after a gesture that moved
ClickRaised == IF ~drag.moved /\ drag.dom /\ version # 1 THEN 1 ELSE 0

\* pointer-up: dragended, then the click if one is raised.  handleNodeClick
\* stores the clicked node object, a new object of this effect run, so App
\* renders again and hands the view a new onNodeClick function: the effect,
\* which depends on it, is cleaned up and run again on the same props
PointerUp ==
    /\ drag.node # NoNode
    /\ selectedDevice' = IF ClickRaised = 1 THEN drag.node ELSE selectedDevice
    /\ emitted' = IF ClickRaised = 1 THEN <<drag.node>> ELSE << >>
    /\ runs' = runs
    /\ IF ClickRaised = 1
       THEN Render(nodes, links, FALSE, Cleaned(dragended.sim), dragended.orphans,
                   NoDrag)
       ELSE /\ sim' = dragended.sim
            /\ orphans' = dragended.orphans
            /\ pin' = dragended.pin
            /\ drag' = NoDrag
            /\ UNCHANGED <<version, mounted, crashed, nodes, links, simNodes, pos,
                           cleanup, drawnNodes, drawnLinks, tornTick, zoomOn,
                           zoomK, zoomX, drawnK, drawnX, drawnPos, gesture,
                           styled, app, topo>>

\* ------------------------------------------------------------------ zoom
\* a scale extent without its upper end
ClampK_noMax(k) == IF k < KMin THEN KMin ELSE k

\* scaleExtent([0.1, 4])
ClampK(k) == IF k < KMin THEN KMin ELSE IF k > KMax THEN KMax ELSE k

\* d3-zoom translate(scale(t, k2), p, t.invert(p)): the translation that keeps
\* the point under the pointer p where it is when the scale goes from k1 to k2
ZoomAbout(x, p, k1, k2) == p - ((p - x) * k2) \div k1

\* d3-zoom wheel or pinch at pointer p asking for scale kr: the scale is
\* clamped to the extent, no event is raised when it does not change, and the
\* zoom handler writes the new transform on the drawn group.  Only gestures
\* whose translation is a point of the integer grid are taken.
Wheel(kr, p) ==
    /\ mounted /\ zoomOn
    /\ LET k2 == ClampK(kr)
           x2 == ZoomAbout(zoomX, p, zoomK, k2)
       IN /\ k2 # zoomK
          /\ ((p - zoomX) * k2) % zoomK = 0
          /\ Abs(x2) <= MaxPan
          /\ zoomK' = k2 /\ zoomX' = x2
          /\ drawnK' = k2 /\ drawnX' = x2
    /\ gesture' = [kind |-> "wheel", p |-> p, d |-> 0, zk |-> zoomK,
                   k |-> drawnK, x |-> drawnX]
    /\ emitted' = << >>
    /\ UNCHANGED <<version, mounted, crashed, runs, nodes, links, sim, simNodes,
                   pos, pin, cleanup, orphans, drawnNodes, drawnLinks, drag,
                   selectedDevice, tornTick, zoomOn, drawnPos, styled,
                   app, topo>>

\* d3-zoom pointer drag on the empty canvas
Pan(d) ==
    /\ mounted /\ zoomOn
    /\ Abs(zoomX + d) <= MaxPan
    /\ zoomX' = zoomX + d
    /\ drawnX' = zoomX + d
    /\ drawnK' = zoomK
    /\ gesture' = [kind |-> "pan", p |-> 0, d |-> d, zk |-> zoomK,
                   k |-> drawnK, x |-> drawnX]
    /\ emitted' = << >>
    /\ UNCHANGED <<version, mounted, crashed, runs, nodes, links, sim, simNodes,
                   pos, pin, cleanup, orphans, drawnNodes, drawnLinks, drag,
                   selectedDevice, tornTick, zoomOn, zoomK, drawnPos, styled,
                   app, topo>>

\* ---------------------------------------------------------------- styles
getStatusColor(status) ==
    CASE status = "ONLINE" -> "#10b981"
      [] status = "WARNING" -> "#f59e0b"
      [] status = "OFFLINE" -> "#ef4444"
      [] OTHER -> "#64748b"

\* the main shape of a node: a rect for a SERVER in version 2 (lines 329-347),
\* a circle for every type in version 1 (lines 96-101)
NodeShape(type) == IF version = 2 /\ type = "SERVER" THEN "rect" ELSE "circle"

\* the stroke of a link line
LinkStroke(status) == IF status = "DOWN" THEN "#ef4444" ELSE "#475569"

\* the device and the link record whose marks are drawn
StyleInputs ==
    {[NoStyle EXCEPT !.type = t, !.status = st, !.link = l] :
        t \in DeviceTypes, st \in DeviceStatuses, l \in LinkStatuses}

InitStyle ==
    /\ version \in Versions
    /\ Idle
    /\ styled \in StyleInputs
    /\ topo = NoTopo

\* the node join draws the main shape of the device
DrawNode ==
    /\ styled.shape = "none"
    /\ styled' = [styled EXCEPT !.shape = NodeShape(styled.type),
                                !.stroke = getStatusColor(styled.status)]
    /\ UNCHANGED <<version, mounted, crashed, runs, nodes, links, sim, simNodes,
                   pos, pin, cleanup, orphans, drawnNodes, drawnLinks, drag,
                   selectedDevice, emitted, tornTick, zoomOn, zoomK, zoomX,
                   drawnK, drawnX, drawnPos, gesture, app, topo>>

\* the link join draws the line of the link
DrawLink ==
    /\ styled.line = "none"
    /\ styled' = [styled EXCEPT !.line = LinkStroke(styled.link)]
    /\ UNCHANGED <<version, mounted, crashed, runs, nodes, links, sim, simNodes,
                   pos, pin, cleanup, orphans, drawnNodes, drawnLinks, drag,
                   selectedDevice, emitted, tornTick, zoomOn, zoomK, zoomX,
                   drawnK, drawnX, drawnPos, gesture, app, topo>>

\* ---------------------------------------------------- the caller's records
\* x and fx of the node record the caller holds for id: version 1 hands the
\* caller's records to forceSimulation (line 71), version 2 copies of them
\* (line 231)
callerX(id) == IF version = 1 THEN pos[id] ELSE NoPos

callerFx(id) == IF version = 1 THEN pin[id] ELSE NoPin

\* the ends of the caller's link record l are node objects, no longer id
\* strings: forceLink(links) of version 1 (line 72) resolves the caller's
\* records in place, version 2 resolves copies (line 232)
callerLinkResolved(l) == version = 1 /\ l \in drawnLinks

\* ------------------------------------------------------------------- App
\* a field the response does not have
NoList == -1

\* api.getSnapshot of the i-th fetch: the lists of the response, or empty
\* lists from the catch block after a network error or a non-OK response
getSnapshot(i, ok) == IF ok THEN [nodes |-> i] ELSE [nodes |-> 0]

\* if (data && data.nodes): an array is truthy, the empty one too
HasNodes(data) == data.nodes # NoList

\* App may still start a fetch, a backend trigger or a timer
Capacity == app.started + app.triggers + app.timers < MaxFetches

\* fetchData up to its await: setLoading(true) and the request is sent
fetchData(a) ==
    [a EXCEPT !.loading = TRUE, !.started = @ + 1,
              !.pending = @ \cup {a.started + 1}]

\* fetchData called by the refresh control of the topology view, by
\* handleClearAlarm or by the initial load
Refresh ==
    /\ Capacity
    /\ app' = fetchData(app)
    /\ UNCHANGED <<viewVars, topo>>

\* fetchData after its await, when the response of the i-th fetch arrives
getSnapshotDone(i, ok) ==
    /\ i \in app.pending
    /\ LET data == getSnapshot(i, ok)
       IN app' = [app EXCEPT !.pending = @ \ {i},
                             !.ok = IF ok THEN @ \cup {i} ELSE @,
                             !.devices = IF HasNodes(data) THEN data.nodes ELSE @,
                             !.loading = FALSE]
    /\ UNCHANGED <<viewVars, topo>>

\* Sync Data clicked (the button is disabled while loading): setLoading(true)
\* and api.triggerFetch() is sent
handleManualFetch ==
    /\ ~app.loading
    /\ Capacity
    /\ app' = [app EXCEPT !.loading = TRUE, !.triggers = @ + 1]
    /\ UNCHANGED <<viewVars, topo>>

\* api.triggerFetch settles: resolved (any response) the handler goes on to
\* setTimeout(fetchData, 2000); rejected (network error) the handler ends
\* with the exception, which nothing catches
triggerFetchDone(ok) ==
    /\ app.triggers > 0
    /\ app' = [app EXCEPT !.triggers = @ - 1,
                          !.timers = IF ok THEN @ + 1 ELSE @]
    /\ UNCHANGED <<viewVars, topo>>

\* the timer of handleManualFetch fires: fetchData()
TimerFires ==
    /\ app.timers > 0
    /\ app' = fetchData([app EXCEPT !.timers = @ - 1])
    /\ UNCHANGED <<viewVars, topo>>

\* --------------------------------------------- generateTopologyFromConfig
Max(S) == CHOOSE m \in S : \A x \in S : x <= m

\* the arguments: lists of device configs, each given by its id alone, with
\* and without repeated ids.  The function compares ids only for equality,
\* so of the lists that differ by a renaming of the ids one is taken: an id
\* is at most one more than the largest id before it
ConfigLists ==
    {c \in UNION {[1..n -> 1..MaxConfigs] : n \in 0..MaxConfigs} :
        \A k \in 1..Len(c) : c[k] <= 1 + Max({0} \cup {c[j] : j \in 1..(k - 1)})}

\* a ring that links every node to itself
RingTarget_self(i, n) == i

\* const targetIndex = (i + 1) % nodes.length
RingTarget(i, n) == (i + 1) % n

\* if (randomTarget.id !== source.id && randomTarget.id !== target.id)
MeshAccepted(randomTarget, source, target) ==
    randomTarget # source /\ randomTarget # target

\* one pass of the loop over the nodes, which carry the ids of the configs
\* (generateDeviceStatus spreads the config): the ring link is pushed and,
\* for more than 3 nodes and r (Math.random() > 0.7), a mesh link to the node
\* at the random index t if MeshAccepted
LoopStep(r, t) ==
    /\ ~topo.done
    /\ LET n == Len(topo.configs)
           i == topo.i
           source == topo.configs[i + 1]
           target == topo.configs[RingTarget(i, n) + 1]
           randomTarget == topo.configs[t + 1]
       IN /\ n > 1 /\ i < n /\ t < n
          /\ topo' = [topo EXCEPT
                !.i = i + 1,
                !.links = IF n > 3 /\ r /\ MeshAccepted(randomTarget, source, target)
                          THEN Append(Append(@, <<source, target>>),
                                      <<source, randomTarget>>)
                          ELSE Append(@, <<source, target>>)]
    /\ UNCHANGED <<viewVars, app>>

\* return { nodes, links }
Return ==
    /\ ~topo.done
    /\ Len(topo.configs) <= 1 \/ topo.i = Len(topo.configs)
    /\ topo' = [topo EXCEPT !.done = TRUE]
    /\ UNCHANGED <<viewVars, app>>

InitTopo ==
    /\ version \in Versions
    /\ Idle
    /\ styled = NoStyle
    /\ topo \in {[NoTopo EXCEPT !.configs = c] : c \in ConfigLists}

\* -------------------------------------------------------- specifications
Next ==
    \/ \E ns \in NodeLists, ls \in LinkLists, fresh \in BOOLEAN : Mount(ns, ls, fresh)
    \/ \E ns \in NodeLists, ls \in LinkLists, fresh \in BOOLEAN : Replace(ns, ls, fresh)
    \/ Unmount
    \/ Tick
    \/ \E o \in orphans : TickOrphan(o)
    \/ \E n \in DeviceIds, dx \in Offsets : PointerDown(n, dx)
    \/ \E p \in Pointers : PointerMove(p)
    \/ PointerUp

Spec == Init /\ [][Next]_vars

\* the viewport alone: the view's life cycle and the zoom behaviour
NextZoom ==
    \/ \E ns \in NodeLists, ls \in LinkLists, fresh \in BOOLEAN : Mount(ns, ls, fresh)
    \/ \E ns \in NodeLists, ls \in LinkLists, fresh \in BOOLEAN : Replace(ns, ls, fresh)
    \/ Unmount
    \/ \E kr \in ScaleRequests, p \in Coords : Wheel(kr, p)
    \/ \E d \in {-1, 1} : Pan(d)

SpecZoom == Init /\ [][NextZoom]_vars

\* the simulation left to itself: the view's life cycle and the frame timer,
\* which d3-timer fires on every animation frame while it runs
NextCool ==
    \/ \E ns \in NodeLists, ls \in LinkLists, fresh \in BOOLEAN : Mount(ns, ls, fresh)
    \/ \E ns \in NodeLists, ls \in LinkLists, fresh \in BOOLEAN : Replace(ns, ls, fresh)
    \/ Unmount
    \/ Tick
    \/ \E o \in orphans : TickOrphan(o)

SpecCool == Init /\ [][NextCool]_vars /\ WF_vars(Tick)

\* the data sets of at most one device
LoneLists == {<< >>, <<"a">>}

\* the view of a data set of at most one device with its pointer input, the
\* frame timer firing on every animation frame while it runs.  Neither the
\* clock of the simulation nor what the drag handlers do to it reads the
\* number of nodes or their positions
NextDrag ==
    \/ \E ns \in LoneLists, ls \in LinkLists, fresh \in BOOLEAN : Mount(ns, ls, fresh)
    \/ \E ns \in LoneLists, ls \in LinkLists, fresh \in BOOLEAN : Replace(ns, ls, fresh)
    \/ Unmount
    \/ Tick
    \/ \E n \in DeviceIds, dx \in Offsets : PointerDown(n, dx)
    \/ \E p \in Pointers : PointerMove(p)
    \/ PointerUp

SpecDrag == Init /\ [][NextDrag]_vars /\ WF_vars(Tick)

\* App and its backend: every request is answered or fails, every timer fires
NextApp ==
    \/ Refresh
    \/ handleManualFetch
    \/ \E ok \in BOOLEAN : triggerFetchDone(ok)
    \/ TimerFires
    \/ \E i \in 1..MaxFetches, ok \in BOOLEAN : getSnapshotDone(i, ok)

SpecApp ==
    /\ Init /\ [][NextApp]_vars
    /\ WF_vars(\E ok \in BOOLEAN : triggerFetchDone(ok))
    /\ WF_vars(TimerFires)
    /\ WF_vars(\E i \in 1..MaxFetches, ok \in BOOLEAN : getSnapshotDone(i, ok))

\* one call of generateTopologyFromConfig
NextTopo ==
    \/ \E r \in BOOLEAN, t \in 0..(MaxConfigs - 1) : LoopStep(r, t)
    \/ Return

SpecTopo == InitTopo /\ [][NextTopo]_vars

\* the marks drawn for one device and one link
NextStyle ==
    \/ DrawNode
    \/ DrawLink

SpecStyle == InitStyle /\ [][NextStyle]_vars

\* ---------------------------------------------------------------- claims
Settled == sim.exists /\ ~sim.timer /\ sim.alpha < AlphaMin

\* C1: after the view is unmounted or its data set is replaced, no tick
\* callback of the simulation created for the previous data set runs.
C1_NoTickAfterTeardown == ~tornTick

\* C2: a link with an endpoint id absent from the node list does not make
\* initialization fail; it is left out of the drawn lines and every link
\* whose two endpoints are present is still drawn.  (Stated for a non-empty
\* node list.)
C2_DanglingLinkDropped ==
    (runs > 0 /\ DanglingLinks(nodes, links) # {} /\ Len(nodes) > 0)
        => /\ ~crashed
           /\ mounted => drawnLinks = links \ DanglingLinks(nodes, links)

\* C3: data-set replacement starts a new simulation from Cold: immediately
\* after it alpha is 1.0, no node is pinned and every node is at its initial
\* placement (nothing of the previous simulation is carried over).  (Stated
\* for a non-empty new node list.)
C3_ReplacementStartsCold ==
    [][(mounted /\ runs' = runs + 1 /\ ~crashed' /\ Len(nodes') > 0)
          => /\ sim'.exists /\ ~sim'.tornDown
             /\ sim'.alpha = AlphaStart
             /\ \A id \in Range(nodes') :
                   /\ pin'[id] = NoPin
                   /\ pos'[id] = InitialX(IndexOf(nodes', id))]_vars

\* C4: whenever no drag gesture is in progress no node has a pinned position.
C4_NoPinWithoutDrag ==
    drag.node = NoNode => \A id \in DeviceIds : pin[id] = NoPin

\* a node was dragged off the grid, the simulation placed it on its pin, and
\* the gesture has ended
C4_Witness ==
    /\ drag.node = NoNode
    /\ \E id \in Range(simNodes) : pos[id] = MaxCoord + 1 /\ pin[id] = NoPin

\* C5 as claimed: during a drag the pin equals the pointer location.
C5_PinIsPointer ==
    drag.node # NoNode => drag.fx = drag.ptr

\* C5 as amended: during a drag the pin equals the pointer location plus the
\* offset between the node's position and the pointer at pointer-down; at
\* pointer-down that is the node's current position.
C5_PinFollowsPointer ==
    drag.node # NoNode =>
        /\ drag.fx = drag.ptr + drag.dx
        /\ drag.live => pin[drag.node] = drag.fx

C5_Witness ==
    drag.node # NoNode /\ drag.moved /\ drag.dx # 0 /\ drag.live

\* C6: a pointer-down/up pair on a node without movement raises exactly one
\* node-selected event carrying that node's identity; a pair with movement
\* raises none.  (Stated for a node element that exists throughout the pair.)
C6_ClickRaisesSelection ==
    [][(drag.node # NoNode /\ drag.dom /\ drag'.node = NoNode)
          => emitted' = (IF drag.moved THEN << >> ELSE <<drag.node>>)]_vars

About(a, t) == Abs(a - t) * 10 <= AlphaScale

DragStartFromSettled == Settled /\ drag.node = NoNode /\ drag'.node # NoNode

C8_EmptyNeverRuns ==
    (sim.exists /\ simNodes = << >>) => ~sim.timer

\* C9: whenever the current node list is empty the drawn frame contains no
\* node and no link.
C9_EmptyDrawsNothing ==
    (mounted /\ nodes = << >>) => (drawnNodes = {} /\ drawnLinks = {})

\* C10: after any sequence of wheel, pinch and pan events the viewport scale
\* stays within [0.1, 4].
C10_ScaleWithinExtent ==
    zoomK >= KMin /\ zoomK <= KMax

\* the scale was driven to the upper end of the extent and the view was panned
C10_Witness ==
    zoomOn /\ zoomK = KMax /\ zoomX # 0

Running == sim.exists /\ sim.timer /\ Len(simNodes) > 0

\* a step of the frame timer of the simulation the view holds
TickStep == sim.exists /\ sim.timer /\ runs' = runs /\ mounted' = mounted
            /\ drag' = drag /\ <<sim, pos, drawnPos>>' # <<sim, pos, drawnPos>>

\* C11: a simulation initialized with a non-empty node set starts with alpha
\* 1.0; as long as no drag starts every tick decreases alpha, the tick that
\* takes it below the threshold schedules no further tick, and that happens
\* after finitely many ticks.
C11_AlphaDecaysToSettled ==
    /\ [][(runs' = runs + 1 /\ sim'.exists /\ ~sim'.tornDown /\ Len(simNodes') > 0)
             => (sim'.alpha = AlphaStart /\ sim'.timer)]_vars
    /\ [][(TickStep /\ Len(simNodes) > 0 /\ sim.alphaTarget = 0)
             => /\ sim'.alpha < sim.alpha
                /\ sim'.timer = (sim'.alpha >= AlphaMin)]_vars
    /\ (Running /\ drag.node = NoNode)
          ~> (Settled \/ ~sim.exists \/ sim.tornDown \/ drag.node # NoNode)

\* a simulation of a non-empty node set has cooled down and stopped
C11_Witness ==
    Settled /\ Len(simNodes) > 0 /\ mounted /\ drawnPos = pos /\ sim.alpha = 0

\* C12: for every drawn link whose two endpoints are nodes, the ends of the
\* drawn line are at the current positions of its source and target nodes.
C12_LinesFollowNodes ==
    mounted => \A l \in drawnLinks :
                  (l[1] \in Range(simNodes) /\ l[2] \in Range(simNodes))
                      => (drawnPos[l[1]] = pos[l[1]] /\ drawnPos[l[2]] = pos[l[2]])

\* C13: a step that is not a mount, an unmount or a new node or link list
\* (pan, zoom, node drag, node click) neither tears down nor reinitializes
\* the simulation: it is not stopped for good, alpha is not set back to 1.0
\* and the drawn elements are not rebuilt.
C13_InteractionKeepsSimulation ==
    [][(mounted /\ mounted' /\ runs' = runs /\ sim.exists)
          => /\ sim'.exists
             /\ sim'.tornDown = sim.tornDown
             /\ sim.alpha < AlphaStart => sim'.alpha < AlphaStart
             /\ (drawnNodes # {} /\ drawnPos # Blank) => drawnPos' # Blank]_vars

\* the step applies the exact inverse of the zoom gesture before it: the same
\* pointer and the scale held before, or the opposite pan
InverseStep ==
    /\ gesture.kind # "none"
    /\ gesture'.kind = gesture.kind
    /\ gesture.kind = "wheel" => (gesture'.p = gesture.p /\ zoomK' = gesture.zk)
    /\ gesture.kind = "pan" => gesture'.d = -gesture.d

\* C14: a zoom or pan followed by its exact inverse returns the transform of
\* the drawn group, and with it the screen coordinates of every node, to
\* what it was before the two.
C14_InverseRestoresView ==
    [][InverseStep => (drawnK' = gesture.k /\ drawnX' = gesture.x)]_vars

\* C15: a node is drawn green when ONLINE, amber when WARNING and red when
\* OFFLINE, as a square when it is a SERVER and as a disc otherwise; a link
\* is drawn red exactly when its status is DOWN.
C15_MarksFollowRecord ==
    /\ styled.shape # "none" =>
          /\ styled.status = "ONLINE" => styled.stroke = "#10b981"
          /\ styled.status = "WARNING" => styled.stroke = "#f59e0b"
          /\ styled.status = "OFFLINE" => styled.stroke = "#ef4444"
          /\ styled.shape = (IF styled.type = "SERVER" THEN "rect" ELSE "circle")
    /\ styled.line # "none" => (styled.line = "#ef4444" <=> styled.link = "DOWN")

ViewCentre == MaxCoord \div 2

LoneNode == mounted /\ sim.exists /\ Len(simNodes) = 1 /\ drawnLinks = {}

\* C18 as claimed: a lone node without links is, once the simulation has
\* settled, at the viewport centre and where its initial placement put it.
C18_LoneNodeUnmoved ==
    (LoneNode /\ Settled)
        => /\ pos[simNodes[1]] = ViewCentre
           /\ pos[simNodes[1]] = InitialX(1)

\* C18 as amended: when no node is dragged, a lone node without links is at
\* the viewport centre after every tick and so once the simulation has
\* settled.
C18_LoneNodeCentred ==
    LoneNode => /\ drawnPos[simNodes[1]] # NoPos => pos[simNodes[1]] = ViewCentre
                /\ Settled => pos[simNodes[1]] = ViewCentre

\* the simulation of a lone node has settled; its initial placement was not
\* the centre
C18_Witness ==
    /\ LoneNode /\ Settled /\ ~sim.tornDown
    /\ drawnPos[simNodes[1]] = ViewCentre
    /\ InitialX(1) # ViewCentre

\* a node drag starts
DragStart == drag.node = NoNode /\ drag'.node # NoNode

DragHandlerStep ==
    /\ drag' # drag
    /\ (drag.node # NoNode \/ drag'.node # NoNode)
    /\ runs' = runs /\ mounted' = mounted
    /\ ~(drag'.node = NoNode /\ ClickRaised = 1)

\* the node the handlers of the step write to (event.subject)
Subject == IF drag.node # NoNode THEN drag.node ELSE drag'.node

\* C21: drag start, drag move and drag end write only the pin of the dragged
\* node: no position changes in such a step and no pin of another node; a
\* tick changes no pin.
C21_HandlersWriteOwnPinOnly ==
    /\ [][DragHandlerStep => /\ pos' = pos
                             /\ \A id \in DeviceIds :
                                   id # Subject => pin'[id] = pin[id]]_vars
    /\ [][TickStep => pin' = pin]_vars

\* a drag has moved the pin of one node of two, ticks have run during it, and
\* the other node is where it was and has no pin
C21_Witness ==
    /\ drag.node # NoNode /\ drag.live /\ drag.moved /\ Len(simNodes) = 2
    /\ pin[drag.node] # NoPin /\ pin[drag.node] # pos[drag.node]
    /\ sim.alpha < AlphaStart
    /\ \E id \in Range(simNodes) : id # drag.node /\ pin[id] = NoPin

\* C22: the transform of the drawn group is the transform the zoom behaviour
\* holds, also right after the data set was replaced following a pan or zoom.
C22_DrawnTransformIsViewport ==
    (mounted /\ zoomOn) => (drawnK = zoomK /\ drawnX = zoomX)

\* a move or end event of a gesture that began before the view's simulation
\* was replaced, removed or torn down
StaleGestureStep ==
    /\ drag.node # NoNode
    /\ ~drag.cur \/ sim.tornDown
    /\ drag' # drag
    /\ runs' = runs /\ mounted' = mounted

\* C23: when the data set is replaced during a node drag, the remaining move
\* and end events of the gesture start no timer again, change nothing of the
\* new simulation and pin none of its nodes.
C23_StaleGestureIsInert ==
    [][StaleGestureStep
          => /\ sim'.timer => sim.timer
             /\ Cardinality(orphans') <= Cardinality(orphans)
             /\ ~sim.tornDown =>
                   /\ sim' = sim
                   /\ \A id \in Range(simNodes) : pin'[id] = pin[id]]_vars

\* the simulation the view holds is live and no node drag is in progress
GestureOver == sim.exists /\ ~sim.tornDown /\ drag.node = NoNode

\* the simulation settles unless it is dragged again, torn down or removed
SettlesAfterGesture ==
    GestureOver ~> (Settled \/ drag.node # NoNode \/ ~sim.exists \/ sim.tornDown)

\* C24 as claimed: while a node drag gesture is in progress the simulation is
\* never Settled, and once the gesture has ended it eventually is.
C24_DragNeverSettles ==
    /\ [](drag.node # NoNode => ~Settled)
    /\ SettlesAfterGesture

\* C24 as amended: while a node drag gesture is in progress on the simulation
\* the view holds (no data-set replacement and no removal of the view since
\* the gesture started) the simulation is never Settled, and once the gesture
\* has ended it eventually is.
C24_DragKeepsRunning ==
    /\ [](drag.node # NoNode /\ drag.cur /\ ~sim.tornDown
             => (sim.timer /\ sim.alphaTarget = AlphaTargetDrag /\ ~Settled))
    /\ SettlesAfterGesture

\* ticks during a drag have taken alpha to the drag target and the dragged
\* node onto its pin off the grid, and the timer still runs
C24_Witness ==
    /\ drag.node # NoNode /\ drag.cur /\ drag.moved /\ ~sim.tornDown
    /\ sim.timer /\ sim.alpha = AlphaTargetDrag
    /\ pos[drag.node] = MaxCoord + 1 /\ drawnPos = pos

\* C25: initializing and running the simulation leaves the caller's records
\* as they were: no caller-held node has a position or a pin and every
\* caller-held link still has id strings as its ends.
C25_CallerRecordsUntouched ==
    /\ \A id \in Range(nodes) : callerX(id) = NoPos /\ callerFx(id) = NoPin
    /\ \A l \in links : ~callerLinkResolved(l)

\* C26: when overlapping snapshot fetches have all completed (successfully),
\* the lists on display are those returned to the fetch started last.
C26_LatestFetchWins ==
    (app.started > 0 /\ app.pending = {} /\ app.ok = 1..app.started)
        => app.devices = app.started

\* C27: after every click on Sync Data the loading flag eventually returns
\* to false, whatever the outcome of the trigger call and of the fetch.
C27_SyncEndsLoading ==
    (app.triggers > 0) ~> ~app.loading

\* the response of a snapshot fetch arrives and the fetch has failed
FetchFails ==
    /\ app'.pending # app.pending /\ app'.pending \subseteq app.pending
    /\ app'.ok = app.ok

\* C28: a snapshot fetch that fails leaves the lists on display as they were.
C28_FailedFetchKeepsLists ==
    [][FetchFails => app'.devices = app.devices]_vars

\* C29: the device shown in the node details panel is none or a device of
\* the current device list, also after a refresh replaced the list.
C29_SelectedDeviceIsListed ==
    selectedDevice # NoNode => selectedDevice \in Range(nodes)

Distinct(c) == \A j, k \in 1..Len(c) : j # k => c[j] # c[k]

\* C30: for device configs with pairwise distinct ids every link that
\* generateTopologyFromConfig produces has as source and target the ids of
\* two different devices of the node list, and a list of one device or none
\* produces no link.
C30_LinksJoinTwoDevices ==
    Distinct(topo.configs) =>
        /\ \A k \in 1..Len(topo.links) :
              /\ topo.links[k][1] \in Range(topo.configs)
              /\ topo.links[k][2] \in Range(topo.configs)
              /\ topo.links[k][1] # topo.links[k][2]
        /\ Len(topo.configs) <= 1 => topo.links = << >>

\* the call has returned for more than 3 devices with distinct ids, with the
\* ring and at least one mesh link
C30_Witness ==
    /\ topo.done /\ Distinct(topo.configs) /\ Len(topo.configs) > 3
    /\ Len(topo.links) > Len(topo.configs)

====
